---- MODULE Spec2Model ----
(***************************************************************************)
(* Model of src/channel.py: the Channel liveness state machine (offline / *)
(* pending-online / online), the delayed-confirmation task _online_delay,  *)
(* the on-demand check_online, the memoized heartbeat payload, the         *)
(* spade-URL resolver and send_watch.                                      *)
(*                                                                         *)
(* The program runs on one asyncio event loop: every piece of code between *)
(* two awaits is one atomic action.  A coroutine in flight is kept as the   *)
(* await it is suspended at: the tasks of _online_delay in slots (the      *)
(* handle names a slot; a slot is free again once its task has ended and   *)
(* nothing refers to it), the on-demand check_online calls as a count, the *)
(* send_watch calls as a bag.                                              *)
(*                                                                         *)
(* Not modelled: title, game, display name, points and claim_bonus, which  *)
(* none of the modelled operations read.                                   *)
(***************************************************************************)
EXTENDS Integers, Sequences, FiniteSets, Bags, TLC

\* ---------------------------------------------------------------- bounds
MaxTasks == 2     \* _online_delay tasks existing at once (one live, the others cancelled)
MaxChecks == 1    \* on-demand check_online calls in flight at once
MaxWatch == 1     \* send_watch calls in flight at once
MaxOverlap == 2   \* send_watch calls in flight at once where calls overlap

\* ------------------------------------------------------------- constants
ACCEPTED == 204
TwitchUserId == 9
DROPS_ENABLED_TAG == "drops-enabled"
OtherTag == "other-tag"

\* -------------------------------------------------------- absent values
NoStream == [none |-> TRUE]
NoPayload == [none |-> TRUE]
NoTask == 0
NoUrl == "<none>"

\* ------------------------------------------------ inputs (wire shapes)
\* Identifiers arrive as decimal strings; a string is a sequence of digits.
RECURSIVE int(_)
int(s) == IF s = <<>> THEN 0 ELSE 10 * int(SubSeq(s, 1, Len(s) - 1)) + s[Len(s)]

UserIdText == <<7>>
ViewerCounts == {500, 20}
\* the broadcasts the lookups and the directory can report
Broadcasts ==
    {[sid |-> <<1, 0, 0>>, viewersCount |-> 500, tags |-> {DROPS_ENABLED_TAG, OtherTag}],
     [sid |-> <<2, 0, 0>>, viewersCount |-> 20, tags |-> {OtherTag}]}

\* responses of gql_request(GetStreamInfo):
\*   none     - falsy response
\*   nouser   - response["data"]["user"] is null
\*   nostream - user present, user["stream"] is null
\*   stream   - user present with a stream
\*   error    - the transport raises
BlankResponse(k) == [kind |-> k, id |-> <<>>, sid |-> <<>>, viewersCount |-> 0, tags |-> {}]
StreamResponses ==
    {[kind |-> "stream", id |-> UserIdText, sid |-> b.sid, viewersCount |-> b.viewersCount,
      tags |-> b.tags] : b \in Broadcasts}
Responses ==
    {BlankResponse("none"), BlankResponse("nouser"), BlankResponse("error"),
     [BlankResponse("nostream") EXCEPT !.id = UserIdText]} \cup StreamResponses
NoResponse == BlankResponse("")

\* pages served to get_spade_url; a page either holds a text the pattern
\* captures (capture is the captured group) or none (capture = NoUrl)
SettingsUrl == "https://static.twitchcdn.net/config/settings.js"
SpadeUrl == "https://video-edge.ts"
HtmlPages == {[capture |-> SettingsUrl, error |-> FALSE],
              [capture |-> NoUrl, error |-> FALSE],
              [capture |-> NoUrl, error |-> TRUE]}
SettingsPages == {[capture |-> SpadeUrl, error |-> FALSE],
                  [capture |-> NoUrl, error |-> FALSE],
                  [capture |-> NoUrl, error |-> TRUE]}
\* outcome of the heartbeat POST: a status, or 0 for RequestException
PostOutcomes == {ACCEPTED, 200, 0}

VARIABLES
    id,         \* Channel.id
    stream,     \* Channel._stream
    pending,    \* Channel._pending_stream_up (a task of tasks, or NoTask)
    payload,    \* the memoized value of Channel._payload
    spade_url,  \* Channel._spade_url
    tasks,      \* the asyncio tasks running _online_delay
    checks,     \* number of on-demand check_online calls awaiting their lookup
    watches,    \* bag of the send_watch calls in flight
    hooks,      \* the collaborator calls made by the last action, in order
    last        \* the last action: operation, task, consumed response, outcome

vars == <<id, stream, pending, payload, spade_url, tasks, checks, watches, hooks, last>>

TaskIds == 1..MaxTasks

\* ------------------------------------------------------------- Stream
Stream(sid, viewers, tags) ==
    [broadcast_id |-> int(sid),
     viewers |-> viewers,
     drops_enabled |-> \E t \in tags : t = DROPS_ENABLED_TAG]

from_get_stream(data) == Stream(data.sid, data.viewersCount, data.tags)

from_directory(data) == Stream(data.sid, data.viewersCount, data.tags)

\* ------------------------------------------------------------ queries
online == stream # NoStream

offline_ignoring_pending == stream = NoStream

offline == stream = NoStream /\ pending = NoTask

pending_online == pending # NoTask

viewers == IF stream # NoStream THEN stream.viewers ELSE -1

drops_enabled == IF stream # NoStream THEN stream.drops_enabled ELSE FALSE

\* ------------------------------------------------------------- hooks
Display(p, s) == [hook |-> "display", pending |-> p, online |-> s # NoStream]
OnOnline == [hook |-> "on_online", pending |-> NoTask, online |-> TRUE]
OnOffline == [hook |-> "on_offline", pending |-> NoTask, online |-> FALSE]
GuiRemove == [hook |-> "remove", pending |-> NoTask, online |-> FALSE]

Did(op, who, resp, ret) == [op |-> op, who |-> who, resp |-> resp, ret |-> ret]

\* ------------------------------------------------------ cached property
\* utils.invalidate_cache(self, "_payload"): forget the memoized value
invalidate_cache(p) == NoPayload

\* the JSON text of the payload, as its key/value pairs in order
json_dumps(cid, bid, uid) ==
    <<<<"event", "minute-watched">>, <<"channel_id", cid>>, <<"broadcast_id", bid>>,
      <<"player", "site">>, <<"user_id", uid>>>>

\* body of Channel._payload; evaluated only with a current stream
_payload_body(cid, s) == [data |-> json_dumps(cid, s.broadcast_id, TwitchUserId)]

\* reading self._payload: the memoized value if there is one
_payload(p, cid, s) == IF p # NoPayload THEN p ELSE _payload_body(cid, s)

\* the value stored under key k of an encoded payload
Decoded(p, k) == LET i == CHOOSE j \in 1..Len(p.data) : p.data[j][1] = k IN p.data[i][2]

\* ------------------------------------------------------------ get_stream
get_stream(resp) ==
    IF resp.kind \in {"none", "nouser", "nostream"} THEN NoStream ELSE from_get_stream(resp)

get_stream_id(resp, cur) ==
    IF resp.kind \in {"nostream", "stream"} THEN int(resp.id) ELSE cur

\* --------------------------------------------------------- asyncio tasks
\* a task slot holds where its task is: "unborn" (no task), "created" (not
\* stepped yet), "sleep" and "lookup" (suspended at that await), "cancelling"
\* (CancelledError is due at its await), "failed" (ended with an exception)
Unborn == "unborn"

Running(t) == tasks[t] \in {"created", "sleep", "lookup"}

\* a cancel() that does not reach the task
cancel_not_taking(ts, t) == ts

\* Task.cancel(): a finished task ignores it, a suspended one gets
\* CancelledError thrown at its await when the loop next steps it
cancel(ts, t) ==
    IF ts[t] \in {"created", "sleep", "lookup"}
    THEN [ts EXCEPT ![t] = "cancelling"]
    ELSE ts

\* the handle let go of task t: a task that had ended (with an exception)
\* is unreferenced now and its slot is free
forget(ts, t) == IF ts[t] = "failed" THEN [ts EXCEPT ![t] = Unborn] ELSE ts

\* 'self._pending_stream_up.cancel(); self._pending_stream_up = None'
cancel_pending(ts, p) == IF p # NoTask THEN forget(cancel(ts, p), p) ELSE ts

\* a task suspended at await `at` is resumed there by the loop
Resumable(t, at) == tasks[t] = at

\* the first task slot not yet used by create_task
NextTask == CHOOSE t \in TaskIds : tasks[t] = Unborn /\ \A u \in 1..(t - 1) : tasks[u] # Unborn

\* ------------------------------------------------------------------ Init
DirectoryData == Broadcasts

Init ==
    /\ \/ id = 0 /\ stream = NoStream                                    \* from_name, no user found
       \/ id = int(UserIdText) /\ stream = NoStream                      \* from_acl
       \/ id = int(UserIdText) /\ \E d \in DirectoryData : stream = from_directory(d)
    /\ pending = NoTask
    /\ payload = NoPayload
    /\ spade_url = NoUrl
    /\ tasks = [t \in TaskIds |-> Unborn]
    /\ checks = 0
    /\ watches = EmptyBag
    /\ hooks = <<>>
    /\ last = Did("init", 0, NoResponse, "")

\* ------------------------------------------------------------ set_online
set_online ==
    /\ offline => \E t \in TaskIds : tasks[t] = Unborn
    /\ IF offline
       THEN /\ tasks' = [tasks EXCEPT ![NextTask] = "created"]
            /\ pending' = NextTask
            /\ hooks' = <<Display(NextTask, stream)>>
       ELSE /\ UNCHANGED <<tasks, pending>>
            /\ hooks' = <<>>
    /\ last' = Did("set_online", 0, NoResponse, "")
    /\ UNCHANGED <<id, stream, payload, spade_url, checks, watches>>

\* ----------------------------------------------------------- set_offline
\* last.who of a set_offline: 2 when the action before it was a set_offline too
Again == IF last.op = "set_offline" THEN 2 ELSE 1

\* 'elif self.online' in place of the second 'if'
set_offline_elif ==
    LET hadPending == pending # NoTask
        wasOnline == stream # NoStream /\ ~hadPending
    IN  /\ tasks' = cancel_pending(tasks, pending)
        /\ pending' = NoTask
        /\ stream' = IF wasOnline THEN NoStream ELSE stream
        /\ payload' = IF wasOnline THEN invalidate_cache(payload) ELSE payload
        /\ hooks' = (IF hadPending THEN <<Display(NoTask, stream)>> ELSE <<>>)
                    \o (IF wasOnline THEN <<Display(NoTask, NoStream), OnOffline>> ELSE <<>>)
        /\ last' = Did("set_offline", Again, NoResponse, "")
        /\ UNCHANGED <<id, spade_url, checks, watches>>

\* the last display() and on_offline() outside the 'if self.online'
set_offline_always_notifying ==
    LET hadPending == pending # NoTask
        wasOnline == stream # NoStream
    IN  /\ tasks' = cancel_pending(tasks, pending)
        /\ pending' = NoTask
        /\ stream' = NoStream
        /\ payload' = IF wasOnline THEN invalidate_cache(payload) ELSE payload
        /\ hooks' = (IF hadPending THEN <<Display(NoTask, stream)>> ELSE <<>>)
                    \o <<Display(NoTask, NoStream), OnOffline>>
        /\ last' = Did("set_offline", Again, NoResponse, "")
        /\ UNCHANGED <<id, spade_url, checks, watches>>

set_offline ==
    LET hadPending == pending # NoTask
        wasOnline == stream # NoStream
    IN  /\ tasks' = cancel_pending(tasks, pending)
        /\ pending' = NoTask
        /\ stream' = NoStream
        /\ payload' = IF wasOnline THEN invalidate_cache(payload) ELSE payload
        /\ hooks' = (IF hadPending THEN <<Display(NoTask, stream)>> ELSE <<>>)
                    \o (IF wasOnline THEN <<Display(NoTask, NoStream), OnOffline>> ELSE <<>>)
        /\ last' = Did("set_offline", Again, NoResponse, "")
        /\ UNCHANGED <<id, spade_url, checks, watches>>

\* ---------------------------------------------------------------- remove
\* remove() without the cancel() call
remove_without_cancel ==
    /\ tasks' = IF pending # NoTask THEN forget(tasks, pending) ELSE tasks
    /\ pending' = NoTask
    /\ hooks' = <<GuiRemove>>
    /\ last' = Did("remove", 0, NoResponse, "")
    /\ UNCHANGED <<id, stream, payload, spade_url, checks, watches>>

remove ==
    /\ tasks' = cancel_pending(tasks, pending)
    /\ pending' = NoTask
    /\ hooks' = <<GuiRemove>>
    /\ last' = Did("remove", 0, NoResponse, "")
    /\ UNCHANGED <<id, stream, payload, spade_url, checks, watches>>

\* ---------------------------------------------------------- check_online
\* the code of check_online after its await of get_stream returned
\* 'stream = await self.get_stream()' without the store to self._stream
check_online_not_adopting(resp) ==
    /\ id' = get_stream_id(resp, id)
    /\ stream' = stream
    /\ payload' = IF get_stream(resp) = NoStream THEN invalidate_cache(payload) ELSE payload

\* check_online without the invalidate_cache of its 'stream is None' branch
check_online_keeping_payload(resp) ==
    /\ id' = get_stream_id(resp, id)
    /\ stream' = get_stream(resp)
    /\ payload' = payload

check_online(resp) ==
    /\ id' = get_stream_id(resp, id)
    /\ stream' = get_stream(resp)
    /\ payload' = IF get_stream(resp) = NoStream THEN invalidate_cache(payload) ELSE payload

\* an on-demand call: up to the await of the live-lookup
CheckOnlineCall ==
    /\ checks < MaxChecks
    /\ checks' = checks + 1
    /\ hooks' = <<>>
    /\ last' = Did("check_online_call", 0, NoResponse, "")
    /\ UNCHANGED <<id, stream, pending, payload, spade_url, tasks, watches>>

\* an on-demand call: the lookup answered (or raised), the call returns
CheckOnlineReturn(resp) ==
    /\ checks > 0
    /\ checks' = checks - 1
    /\ hooks' = <<>>
    /\ IF resp.kind = "error"
       THEN /\ UNCHANGED <<id, stream, payload>>
            /\ last' = Did("check_online", 0, resp, "raise")
       ELSE /\ check_online(resp)
            /\ last' = Did("check_online", 0, resp,
                           IF get_stream(resp) = NoStream THEN "False" ELSE "True")
    /\ UNCHANGED <<pending, spade_url, tasks, watches>>

\* --------------------------------------------------------- _online_delay
\* the collaborator calls of the task after check_online returned: the
\* handle (held by task t until then) is cleared, display() is called and
\* sees the cleared handle, then on_online() if the channel is online
online_delay_hooks_display_first(t, s) ==
    <<Display(t, s)>> \o (IF s # NoStream THEN <<OnOnline>> ELSE <<>>)

online_delay_hooks_always_on_online(t, s) ==
    <<Display(NoTask, s), OnOnline>>

online_delay_hooks(t, s) ==
    <<Display(NoTask, s)>> \o (IF s # NoStream THEN <<OnOnline>> ELSE <<>>)

OnOnlineCalls(h) == Cardinality({i \in 1..Len(h) : h[i].hook = "on_online"})

\* first step of the task: runs up to the await of asyncio.sleep
OnlineDelayStart(t) ==
    /\ Resumable(t, "created")
    /\ tasks' = [tasks EXCEPT ![t] = "sleep"]
    /\ hooks' = <<>>
    /\ last' = Did("task_start", t, NoResponse, "")
    /\ UNCHANGED <<id, stream, pending, payload, spade_url, checks, watches>>

\* the online delay elapsed: runs up to the await of the live-lookup
OnlineDelaySlept(t) ==
    /\ Resumable(t, "sleep")
    /\ tasks' = [tasks EXCEPT ![t] = "lookup"]
    /\ hooks' = <<>>
    /\ last' = Did("task_slept", t, NoResponse, "")
    /\ UNCHANGED <<id, stream, pending, payload, spade_url, checks, watches>>

\* the live-lookup answered (or raised): runs to the end of the coroutine
OnlineDelayLookedUp(t, resp) ==
    /\ Resumable(t, "lookup")
    /\ IF resp.kind = "error"
       THEN /\ tasks' = [tasks EXCEPT ![t] = "failed"]
            /\ hooks' = <<>>
            /\ UNCHANGED <<id, stream, pending, payload>>
       ELSE /\ check_online(resp)
            /\ pending' = NoTask
            /\ hooks' = online_delay_hooks(t, get_stream(resp))
            /\ tasks' = [tasks EXCEPT ![t] = Unborn]
    /\ last' = Did("task_lookup", t, resp, "")
    /\ UNCHANGED <<spade_url, checks, watches>>

\* the loop steps a task whose cancellation was requested: CancelledError
\* is thrown at its await and leaves the coroutine
OnlineDelayCancelled(t) ==
    /\ tasks[t] = "cancelling"
    /\ tasks' = [tasks EXCEPT ![t] = Unborn]
    /\ hooks' = <<>>
    /\ last' = Did("task_cancelled", t, NoResponse, "")
    /\ UNCHANGED <<id, stream, pending, payload, spade_url, checks, watches>>

\* -------------------------------------------------------- viewers setter
\* the setter treated as a change of the stream: the cache is dropped
set_viewers_invalidating(v) ==
    /\ stream' = IF stream # NoStream THEN [stream EXCEPT !.viewers = v] ELSE stream
    /\ payload' = IF stream # NoStream THEN invalidate_cache(payload) ELSE payload
    /\ hooks' = <<>>
    /\ last' = Did("set_viewers", 0, NoResponse, "")
    /\ UNCHANGED <<id, pending, spade_url, tasks, checks, watches>>

set_viewers(v) ==
    /\ stream' = IF stream # NoStream THEN [stream EXCEPT !.viewers = v] ELSE stream
    /\ hooks' = <<>>
    /\ last' = Did("set_viewers", 0, NoResponse, "")
    /\ UNCHANGED <<id, pending, payload, spade_url, tasks, checks, watches>>

\* ------------------------------------------------------------ send_watch
\* a send_watch call suspended at await `at`, with the URL and the body it holds
Watch(at, url, body) == [pc |-> at, url |-> url, body |-> body]

One(w) == SetToBag({w})

\* the online test placed after the resolution of the spade URL
SendWatchCall_resolving_first ==
    /\ BagCardinality(watches) < MaxWatch
    /\ hooks' = <<>>
    /\ IF spade_url = NoUrl
       THEN /\ watches' = watches (+) One(Watch("html", NoUrl, NoPayload))
            /\ last' = Did("send_watch_call", 0, NoResponse, "")
            /\ UNCHANGED payload
       ELSE IF ~online
       THEN /\ last' = Did("send_watch", 0, NoResponse, "False")
            /\ UNCHANGED <<payload, watches>>
       ELSE /\ payload' = _payload(payload, id, stream)
            /\ watches' = watches (+) One(Watch("post", spade_url, _payload(payload, id, stream)))
            /\ last' = Did("send_watch_call", 0, NoResponse, "")
    /\ UNCHANGED <<id, stream, pending, spade_url, tasks, checks>>

\* the call: the online test, then either the first await of get_spade_url
\* or, with the URL known, the evaluation of the POST's arguments
SendWatchBegin ==
    /\ hooks' = <<>>
    /\ IF ~online
       THEN /\ last' = Did("send_watch", 0, NoResponse, "False")
            /\ UNCHANGED <<payload, watches>>
       ELSE IF spade_url = NoUrl
       THEN /\ watches' = watches (+) One(Watch("html", NoUrl, NoPayload))
            /\ last' = Did("send_watch_call", 0, NoResponse, "")
            /\ UNCHANGED payload
       ELSE /\ payload' = _payload(payload, id, stream)
            /\ watches' = watches (+) One(Watch("post", spade_url, _payload(payload, id, stream)))
            /\ last' = Did("send_watch_call", 0, NoResponse, "")
    /\ UNCHANGED <<id, stream, pending, spade_url, tasks, checks>>

SendWatchCall ==
    /\ BagCardinality(watches) < MaxWatch
    /\ SendWatchBegin

\* a call made while another send_watch may be suspended
SendWatchCallOverlapping ==
    /\ BagCardinality(watches) < MaxOverlap
    /\ SendWatchBegin

\* get_spade_url going on to the second GET without testing the first match
SendWatchHtml_unchecked(w, page) ==
    /\ BagIn(w, watches) /\ w.pc = "html"
    /\ hooks' = <<>>
    /\ IF page.error
       THEN /\ watches' = watches (-) One(w)
            /\ last' = Did("send_watch_html", 0, NoResponse, "raise RequestException")
       ELSE /\ watches' = (watches (-) One(w)) (+) One(Watch("settings", page.capture, NoPayload))
            /\ last' = Did("send_watch_html", 0, NoResponse, "")
    /\ UNCHANGED <<id, stream, pending, payload, spade_url, tasks, checks>>

\* get_spade_url: the channel page arrived
SendWatchHtml(w, page) ==
    /\ BagIn(w, watches) /\ w.pc = "html"
    /\ hooks' = <<>>
    /\ IF page.error
       THEN /\ watches' = watches (-) One(w)
            /\ last' = Did("send_watch_html", 0, NoResponse, "raise RequestException")
       ELSE IF page.capture = NoUrl
       THEN /\ watches' = watches (-) One(w)
            /\ last' = Did("send_watch_html", 0, NoResponse, "raise step #1")
       ELSE /\ watches' = (watches (-) One(w)) (+) One(Watch("settings", page.capture, NoPayload))
            /\ last' = Did("send_watch_html", 0, NoResponse, "")
    /\ UNCHANGED <<id, stream, pending, payload, spade_url, tasks, checks>>

\* get_spade_url: the settings script arrived; on a match the URL is
\* stored and the POST's arguments, self._payload among them, are evaluated
SendWatchSettings(w, page) ==
    /\ BagIn(w, watches) /\ w.pc = "settings"
    /\ hooks' = <<>>
    /\ IF page.error
       THEN /\ watches' = watches (-) One(w)
            /\ last' = Did("send_watch_settings", 0, NoResponse, "raise RequestException")
            /\ UNCHANGED <<spade_url, payload>>
       ELSE IF page.capture = NoUrl
       THEN /\ watches' = watches (-) One(w)
            /\ last' = Did("send_watch_settings", 0, NoResponse, "raise step #2")
            /\ UNCHANGED <<spade_url, payload>>
       ELSE /\ spade_url' = page.capture
            /\ IF payload = NoPayload /\ stream = NoStream
               THEN /\ watches' = watches (-) One(w)
                    /\ last' = Did("send_watch_settings", 0, NoResponse, "raise AssertionError")
                    /\ UNCHANGED payload
               ELSE /\ payload' = _payload(payload, id, stream)
                    /\ watches' = (watches (-) One(w))
                                   (+) One(Watch("post", page.capture, _payload(payload, id, stream)))
                    /\ last' = Did("send_watch_settings", 0, NoResponse, "")
    /\ UNCHANGED <<id, stream, pending, tasks, checks>>

\* every answered POST taken as accepted, whatever its status
SendWatchPost_any_status(w, status) ==
    /\ BagIn(w, watches) /\ w.pc = "post"
    /\ hooks' = <<>>
    /\ watches' = watches (-) One(w)
    /\ last' = Did("send_watch_post", 0, NoResponse, IF status # 0 THEN "True" ELSE "False")
    /\ UNCHANGED <<id, stream, pending, payload, spade_url, tasks, checks>>

\* the POST answered with a status, or raised RequestException (0)
SendWatchPost(w, status) ==
    /\ BagIn(w, watches) /\ w.pc = "post"
    /\ hooks' = <<>>
    /\ watches' = watches (-) One(w)
    /\ last' = Did("send_watch_post", 0, NoResponse, IF status = ACCEPTED THEN "True" ELSE "False")
    /\ UNCHANGED <<id, stream, pending, payload, spade_url, tasks, checks>>

\* ------------------------------------------------------------------ Next
Next ==
    \/ set_online
    \/ set_offline
    \/ remove
    \/ CheckOnlineCall
    \/ \E resp \in Responses : CheckOnlineReturn(resp)
    \/ \E t \in TaskIds : OnlineDelayStart(t)
    \/ \E t \in TaskIds : OnlineDelaySlept(t)
    \/ \E t \in TaskIds, resp \in Responses : OnlineDelayLookedUp(t, resp)
    \/ \E t \in TaskIds : OnlineDelayCancelled(t)
    \/ \E v \in ViewerCounts : set_viewers(v)
    \/ SendWatchCall
    \/ \E w \in BagToSet(watches), page \in HtmlPages : SendWatchHtml(w, page)
    \/ \E w \in BagToSet(watches), page \in SettingsPages : SendWatchSettings(w, page)
    \/ \E w \in BagToSet(watches), status \in PostOutcomes : SendWatchPost(w, status)

Spec == Init /\ [][Next]_vars

\* the heartbeat sender called without waiting for its previous call, next
\* to the operations that put the channel online and offline
NextOverlap ==
    \/ set_offline
    \/ CheckOnlineCall
    \/ \E resp \in Responses : CheckOnlineReturn(resp)
    \/ SendWatchCallOverlapping
    \/ \E w \in BagToSet(watches), page \in HtmlPages : SendWatchHtml(w, page)
    \/ \E w \in BagToSet(watches), page \in SettingsPages : SendWatchSettings(w, page)
    \/ \E w \in BagToSet(watches), status \in PostOutcomes : SendWatchPost(w, status)

SpecOverlap == Init /\ [][NextOverlap]_vars

\* ------------------------------------------------------------ type check
TypeOK ==
    /\ id \in {0, int(UserIdText)}
    /\ pending \in TaskIds \cup {NoTask}
    /\ \A t \in TaskIds : tasks[t] \in {Unborn, "created", "sleep", "lookup", "cancelling", "failed"}
    /\ checks \in 0..MaxChecks
    /\ BagCardinality(watches) <= MaxOverlap
    /\ \A w \in BagToSet(watches) : w.pc \in {"html", "settings", "post"}

\* =================================================================
\* Properties
\* =================================================================
ChannelVars == <<id, stream, pending, payload, spade_url>>

\* the tasks that can still run code of _online_delay
LiveTasks == {t \in TaskIds : Running(t)}

\* task t left its await of the live-lookup in this step
LeftLookup(t) == tasks[t] = "lookup" /\ tasks'[t] # "lookup"

\* some step of task t
TaskStep(t) ==
    \/ OnlineDelayStart(t)
    \/ OnlineDelaySlept(t)
    \/ \E resp \in Responses : OnlineDelayLookedUp(t, resp)
    \/ OnlineDelayCancelled(t)

\* C1: in every reachable state exactly one of online, offline and
\* pending_online is true; in particular never online and pending_online
\* together.
C1_ExactlyOneQuery ==
    /\ online \/ offline \/ pending_online
    /\ ~(online /\ offline)
    /\ ~(online /\ pending_online)
    /\ ~(offline /\ pending_online)

\* C2: whenever the memoized payload is present the channel has a current
\* stream and the payload's broadcast_id is that stream's broadcast_id.
C2_PayloadOfCurrentStream ==
    payload # NoPayload =>
        /\ stream # NoStream
        /\ Decoded(payload, "broadcast_id") = stream.broadcast_id

\* a task the handle let go of: set_offline and remove are the only code
\* that takes the handle away from a task that has not ended
Dropped(t) == tasks[t] # Unborn /\ pending # t

\* C3: a task that set_offline or remove cancelled never afterwards changes
\* the channel: no step of it changes id, stream, handle, payload or spade
\* URL, and none fires a hook.
C3_CancelledTaskInert ==
    [][\A t \in TaskIds :
          (Dropped(t) /\ TaskStep(t))
              => (UNCHANGED ChannelVars /\ hooks' = <<>>)]_vars

\* task 1 was cancelled, a later set_online made task 2 the handle, and the
\* loop has now stepped the cancelled task, which ended
C3_Witness ==
    /\ last.op = "task_cancelled" /\ last.who = 1
    /\ tasks[1] = Unborn
    /\ pending = 2 /\ LiveTasks = {2}

\* C4: set_online while ONLINE or PENDING_ONLINE is a no-op: no new task,
\* stream, handle and payload unchanged, no hook fired.
C4_SetOnlineNoOp ==
    [][((online \/ pending_online) /\ set_online)
          => (UNCHANGED <<ChannelVars, tasks, checks, watches>> /\ hooks' = <<>>)]_vars

\* set_online has just been called on a PENDING_ONLINE channel
C4_Witness ==
    /\ last.op = "set_online" /\ hooks = <<>>
    /\ pending_online /\ ~online
    /\ LiveTasks = {pending}

\* C5: when set_offline returns the channel is OFFLINE: handle null with
\* the task it referred to cancelled, stream null, payload dropped.
C5_SetOfflineLeavesOffline ==
    last.op = "set_offline" =>
        /\ pending = NoTask
        /\ stream = NoStream
        /\ payload = NoPayload
        /\ offline
        /\ LiveTasks = {}

\* set_offline has just returned from a channel that was both online and
\* pending: it fired the display hook twice and on_offline, and the task is
\* cancelled while still suspended
C5_Witness ==
    /\ last.op = "set_offline"
    /\ Len(hooks) = 3
    /\ \E t \in TaskIds : tasks[t] = "cancelling"

\* C6: a set_offline directly after a set_offline changes nothing and
\* fires no hook.
C6_SetOfflineIdempotent ==
    [][(last.op = "set_offline" /\ set_offline)
          => (UNCHANGED <<ChannelVars, tasks, checks, watches>> /\ hooks' = <<>>)]_vars

\* set_offline was called twice in a row
C6_Witness == last.op = "set_offline" /\ last.who = 2 /\ hooks = <<>>

\* C7: when an uncancelled task's lookup yields a stream, the task ends
\* with that stream as the current stream (viewers and drops_enabled
\* reflect it), the handle null and on_online fired exactly once by it.
C7_LookupStreamGoesOnline ==
    [][\A t \in TaskIds : LeftLookup(t) => \A resp \in StreamResponses :
          OnlineDelayLookedUp(t, resp) =>
              /\ stream' = from_get_stream(resp)
              /\ stream'.broadcast_id = int(resp.sid)
              /\ online' /\ ~pending_online' /\ ~offline'
              /\ viewers' = resp.viewersCount
              /\ drops_enabled' = (DROPS_ENABLED_TAG \in resp.tags)
              /\ OnOnlineCalls(hooks') = 1
              /\ tasks'[t] = Unborn]_vars

\* the task found a stream with 500 viewers and
\* the drops-enabled tag
C7_Witness ==
    /\ last.op = "task_lookup" /\ last.resp.kind = "stream"
    /\ tasks[last.who] = Unborn
    /\ online /\ ~pending_online /\ viewers = 500 /\ drops_enabled
    /\ OnOnlineCalls(hooks) = 1

\* C8: when an uncancelled task's lookup yields nothing (no response, no
\* user, null stream), the task ends with the channel OFFLINE and on_online
\* is not fired by it.
C8_LookupNothingStaysOffline ==
    [][\A t \in TaskIds : LeftLookup(t) => \A resp \in Responses \ StreamResponses :
          (OnlineDelayLookedUp(t, resp) /\ resp.kind \in {"none", "nouser", "nostream"}) =>
              /\ stream' = NoStream
              /\ pending' = NoTask
              /\ offline' /\ ~online'
              /\ OnOnlineCalls(hooks') = 0
              /\ tasks'[t] = Unborn]_vars

\* the task found the user without a stream: the channel is OFFLINE and
\* only display was called
C8_Witness ==
    /\ last.op = "task_lookup" /\ last.resp.kind = "nostream"
    /\ tasks[last.who] = Unborn
    /\ offline
    /\ hooks = <<Display(NoTask, NoStream)>>

\* C9: at the end of _online_delay, for both outcomes, display fires
\* first and sees a null handle, and on_online (if fired) comes after it.
C9_HandleClearedBeforeDisplay ==
    [][\A t \in TaskIds : LeftLookup(t) => \A resp \in Responses :
          (OnlineDelayLookedUp(t, resp) /\ resp.kind # "error") =>
              /\ Len(hooks') >= 1
              /\ hooks'[1].hook = "display"
              /\ pending' = NoTask
              /\ \A i \in 1..Len(hooks') :
                    /\ hooks'[i].hook = "display" => hooks'[i].pending = NoTask
                    /\ hooks'[i].hook = "on_online" => i > 1]_vars

\* a task has just ended with display followed by on_online
C9_Witness ==
    /\ last.op = "task_lookup"
    /\ Len(hooks) = 2
    /\ hooks[1].hook = "display" /\ hooks[2].hook = "on_online"

\* C10: at most one task that can still affect the channel is in flight
\* and it is the one the handle refers to; set_online from OFFLINE creates
\* exactly one and leaves the channel PENDING_ONLINE.
C10_OneTaskInFlight ==
    /\ [](/\ Cardinality(LiveTasks) <= 1
          /\ \A t \in LiveTasks : pending = t)
    /\ [][(offline /\ set_online) =>
            /\ pending' # NoTask
            /\ tasks[pending'] = Unborn
            /\ LiveTasks' = {pending'}
            /\ \A t \in TaskIds \ {pending'} : tasks'[t] = tasks[t]
            /\ pending_online' /\ ~online' /\ ~offline']_vars

\* a second set_online created task 2 while the cancelled task 1 had not
\* been stepped yet
C10_Witness ==
    /\ last.op = "set_online"
    /\ pending = 2
    /\ tasks[1] = "cancelling"
    /\ LiveTasks = {2}

\* C11: after the delayed confirmation adopted a stream, the payload that
\* is computed next (what reading self._payload yields) carries the
\* broadcast_id of the adopted stream, not that of an earlier one.
C11_PayloadOfAdoptedStream ==
    [][\A t \in TaskIds : LeftLookup(t) => \A resp \in StreamResponses :
          OnlineDelayLookedUp(t, resp) =>
              Decoded(_payload(payload', id', stream'), "broadcast_id") = int(resp.sid)]_vars

\* C12: send_watch on a channel that is not online returns False at once:
\* no request is started (no GET of the resolver, no POST) and spade URL,
\* stream, handle and payload stay as they are.
C12_SendWatchOfflineIsInert ==
    [][(~online /\ SendWatchCall) =>
          /\ last'.op = "send_watch" /\ last'.ret = "False"
          /\ watches' = watches
          /\ UNCHANGED <<ChannelVars, tasks, checks>>
          /\ hooks' = <<>>]_vars

\* send_watch has just returned False on a PENDING_ONLINE channel whose
\* spade URL is not resolved, with no request in flight
C12_Witness ==
    /\ last.op = "send_watch" /\ last.ret = "False"
    /\ pending_online /\ ~online
    /\ spade_url = NoUrl
    /\ watches = EmptyBag

\* a send_watch call on an online channel whose spade URL is resolved
ResolvedCall == online /\ spade_url # NoUrl /\ SendWatchCall

\* the end of a send_watch call: True exactly for the accepted status,
\* False for every other status and for RequestException, nothing raised,
\* and the channel left as it is
PostResult ==
    \A w \in BagToSet(watches), status \in PostOutcomes :
        SendWatchPost(w, status) =>
            /\ last'.ret = (IF status = ACCEPTED THEN "True" ELSE "False")
            /\ UNCHANGED <<ChannelVars, tasks, checks>>
            /\ hooks' = <<>>

\* C13 as stated: for an online channel with a resolved spade URL,
\* send_watch returns True iff the POST ends with 204, False otherwise,
\* raises nothing, and leaves stream, handle, spade URL and payload cache
\* unchanged.
C13_SendWatchLeavesStateAsStated ==
    [][/\ ResolvedCall => UNCHANGED ChannelVars
       /\ PostResult]_vars

\* C13 amended: as stated, except that the payload cache, if it held
\* nothing, holds the payload of the current stream from the call on; a
\* memoized payload is neither dropped nor replaced.
C13_SendWatchResult ==
    [][/\ ResolvedCall =>
            /\ UNCHANGED <<id, stream, pending, spade_url, tasks, checks>>
            /\ payload' = (IF payload # NoPayload THEN payload ELSE _payload_body(id, stream))
            /\ watches' = watches (+) One(Watch("post", spade_url, payload'))
            /\ hooks' = <<>>
       /\ PostResult]_vars

\* a send_watch on an online channel has just returned False after its
\* POST, the payload it sent being the memoized one
C13_Witness ==
    /\ last.op = "send_watch_post" /\ last.ret = "False"
    /\ online /\ spade_url # NoUrl
    /\ payload # NoPayload
    /\ Decoded(payload, "broadcast_id") = stream.broadcast_id

\* get_spade_url returned a URL to send_watch call w in this step
Resolves(w) ==
    \E page \in SettingsPages :
        /\ ~page.error /\ page.capture # NoUrl
        /\ SendWatchSettings(w, page)

\* C14: the resolver completes successfully at most once per channel:
\* it never returns a URL once one is stored, a call made with a URL stored
\* does not start it, and a stored URL is never changed.
C14_ResolvedAtMostOnce ==
    [][/\ \A w \in BagToSet(watches) : Resolves(w) => spade_url = NoUrl
       /\ (spade_url # NoUrl /\ SendWatchCallOverlapping) =>
              CopiesIn(Watch("html", NoUrl, NoPayload), watches')
                  = CopiesIn(Watch("html", NoUrl, NoPayload), watches)
       /\ spade_url # NoUrl => spade_url' = spade_url]_vars

\* the texts without a match for the resolver's patterns
NoMatch == [capture |-> NoUrl, error |-> FALSE]

\* C15: a channel page without the settings-script pattern ends the call
\* with the step #1 error and no second GET; a settings script without the
\* spade_url pattern ends it with the step #2 error; either way the error
\* leaves send_watch, no POST is made, no URL is stored, and the next
\* send_watch on the online channel starts the resolver again.
C15_ResolverFailure ==
    [][/\ \A w \in BagToSet(watches) :
            SendWatchHtml(w, NoMatch) =>
                /\ last'.ret = "raise step #1"
                /\ watches' = watches (-) One(w)
                /\ UNCHANGED <<ChannelVars, tasks, checks>>
       /\ \A w \in BagToSet(watches) :
            SendWatchSettings(w, NoMatch) =>
                /\ last'.ret = "raise step #2"
                /\ watches' = watches (-) One(w)
                /\ UNCHANGED <<ChannelVars, tasks, checks>>
       /\ (online /\ spade_url = NoUrl /\ SendWatchCall) =>
                watches' = watches (+) One(Watch("html", NoUrl, NoPayload))]_vars

\* a send_watch on the online channel has just ended with the step #2
\* error: no URL is stored and no request is in flight
C15_Witness ==
    /\ last.op = "send_watch_settings" /\ last.ret = "raise step #2"
    /\ online /\ spade_url = NoUrl
    /\ watches = EmptyBag

\* C16: the viewers setter changes the viewer count of the current stream
\* and nothing else: payload cache, broadcast id, drops_enabled, handle,
\* spade URL and the three liveness queries stay; without a current stream
\* it changes nothing at all.
C16_ViewersSetterFrame ==
    [][\A v \in ViewerCounts :
          set_viewers(v) =>
              /\ UNCHANGED <<id, pending, payload, spade_url, tasks, checks, watches>>
              /\ hooks' = <<>>
              /\ online' = online /\ offline' = offline /\ pending_online' = pending_online
              /\ IF stream = NoStream
                 THEN stream' = NoStream /\ viewers' = viewers
                 ELSE /\ viewers' = v
                      /\ stream'.broadcast_id = stream.broadcast_id
                      /\ stream'.drops_enabled = stream.drops_enabled]_vars

\* the setter has just set the viewer count of broadcast 100 (reported
\* with 500 viewers) to 20, with the payload memoized
C16_Witness ==
    /\ last.op = "set_viewers"
    /\ online /\ stream.broadcast_id = 100 /\ viewers = 20
    /\ payload # NoPayload
    /\ Decoded(payload, "broadcast_id") = 100

\* C17: check_online returns True exactly when the channel is online as
\* it returns; a stream found becomes the current stream; when nothing is
\* found the current stream is cleared and the payload cache dropped.
C17_CheckOnlineResult ==
    [][\A resp \in Responses :
          (resp.kind # "error" /\ CheckOnlineReturn(resp)) =>
              /\ last'.ret \in {"True", "False"}
              /\ (last'.ret = "True") = online'
              /\ resp.kind = "stream" => stream' = from_get_stream(resp)
              /\ resp.kind \in {"none", "nouser", "nostream"} =>
                    (stream' = NoStream /\ payload' = NoPayload)]_vars

\* an on-demand check_online has just returned False for an answer with a
\* null stream, on a channel whose spade URL an earlier send_watch resolved:
\* the channel is not online and holds no payload
C17_Witness ==
    /\ last.op = "check_online" /\ last.ret = "False"
    /\ last.resp.kind = "nostream"
    /\ ~online /\ payload = NoPayload
    /\ spade_url # NoUrl

\* C18: the handle is never left non-null after the task it refers to has
\* finished, so that every PENDING_ONLINE channel leaves that state by the
\* steps of its task alone, whatever the lookup does.
C18_HandleOfRunningTask == pending # NoTask => Running(pending)

\* C19: the assertion 'self._stream is not None' of _payload holds at
\* every evaluation reached from send_watch.
C19_PayloadAssertionHolds == last.ret # "raise AssertionError"

\* C20: once set_offline has returned, a check_online whose lookup was in
\* flight at that moment does not put the channel online.
C20_NoAdoptionAcrossSetOffline ==
    [][\A resp \in Responses :
          (last.op = "set_offline" /\ CheckOnlineReturn(resp)) => ~online']_vars

====
